---- MODULE Spec2Model ----
(***************************************************************************)
(* A model of the useAwaitData hook (src/src/index.ts).                    *)
(*                                                                         *)
(* One "run" is one execution of the dependency-keyed useMemo body         *)
(* (index.ts:143-192).  Run r owns the closures created by the render that *)
(* started it: abort, updateResult, onfulfilled, onrejected, tick and the  *)
(* AbortController.  All of them capture the `task` argument of that       *)
(* render, and the registry `tasks` is a Map keyed by that task function   *)
(* object, so two runs given the same function object share one key.       *)
(***************************************************************************)
EXTENDS Integers, Sequences, FiniteSets, TLC

\* ------------------------------------------------------------------ bounds
MaxRuns == 3

Runs == 0 .. (MaxRuns - 1)

\* Task function objects that the caller may pass as `task`.
TaskFns == {"f", "g"}
\* Values a task body may fulfil with, ordinary errors it may throw.
Values == {"v1", "v2"}
Errors == {"e1"}

\* ----------------------------------------------------------- program values
symbolInvalidate == "symbolInvalidate"
symbolAborted == "symbolAborted"
Sentinels == {symbolInvalidate, symbolAborted}

undefined == "undefined"
NoRun == -1
NoPayload == "none"

Status == {"running", "fulfilled", "rejected", "aborted"}
Terminal == {"fulfilled", "rejected", "aborted"}

\* Mutant of ResultRunning: the result keeps the previous run's abort function.
ResultRunning_stale(r) == [status |-> "running", payload |-> NoPayload, abort |-> r - 1]
\* Mutant of ResultFulfilled: the value is replaced.
ResultFulfilled_first(v) == [status |-> "fulfilled", payload |-> "v1", abort |-> NoRun]
\* Mutant of ResultRejected: the error is wrapped.
ResultRejected_wrapped(e) == [status |-> "rejected", payload |-> "wrapped", abort |-> NoRun]

\* useAwaitData.Result, as a record of uniform shape.
ResultRunning(r) == [status |-> "running", payload |-> NoPayload, abort |-> r]
ResultFulfilled(v) == [status |-> "fulfilled", payload |-> v, abort |-> NoRun]
ResultRejected(e) == [status |-> "rejected", payload |-> e, abort |-> NoRun]
ResultAborted == [status |-> "aborted", payload |-> NoPayload, abort |-> NoRun]

VARIABLES
  nRuns,                   \* number of runs started so far
  taskOf,                  \* taskOf[r]: the task function object run r was given
  tasks,                   \* the Map task function -> Status (undefined = no entry)
  staleTaskRef,            \* staleTaskRef.current
  staleAbortControllerRef, \* staleAbortControllerRef.current, as the run owning it
  signalAborted,           \* signalAborted[r]: abortController(r).signal.aborted
  abortEvents,             \* abortEvents[r]: times the signal's abort event fired
  resultRef,               \* resultRef.current
  rerenders,               \* number of rerender() calls
  promise,                 \* promise[r]: state of the promise returned by task(scheduler)
  publications,            \* number of updateResult calls with a terminal status
  caught,                  \* caught[r]: sentinels the running body of r holds, from rejected tick() calls
  last                     \* the latest step: its operation, its run, and as arg what a
                           \* tick() settled with, the status abort read, the value
                           \* returned, the error thrown; seen: the snapshot status the
                           \* subscribers of an abort event dispatched in the step
                           \* observed; flag: the run's signal when rerender was called

vars == <<nRuns, taskOf, tasks, staleTaskRef, staleAbortControllerRef,
          signalAborted, abortEvents, resultRef, rerenders, publications,
          promise, caught, last>>

\* The run started most recently (the run the hook's result stands for).
Owner == nRuns - 1
Started(r) == r \in Runs /\ r < nRuns
\* A later start has superseded run r.
Evicted(r) == Started(r) /\ r < Owner
\* tasks.get(task) as seen by the closures of run r.
Registry(r) == tasks[taskOf[r]]

\* ------------------------------------------------------------ Map operations
MapSet(m, k, s) == [m EXCEPT ![k] = s]
MapDelete(m, k) == [m EXCEPT ![k] = undefined]

\* Mutant of updateResultTasks: a terminal status removes the entry.
updateResultTasks_delete(m, task, status) ==
  [m EXCEPT ![task] = IF status = "running" THEN status ELSE undefined]

\* updateResult (index.ts:138-141), the registry half: tasks.set(task, status).
updateResultTasks(m, task, status) == MapSet(m, task, status)

\* Mutant of InvalidateStale: the stale entry is not deleted.
InvalidateStale_keep(m, stale) == m

\* index.ts:186: if (staleTaskRef.current) tasks.delete(staleTaskRef.current)
InvalidateStale(m, stale) == IF stale # undefined THEN MapDelete(m, stale) ELSE m

\* Mutant of ControllerAbort: the controller is not aborted.
ControllerAbort_skip(sig, r) == sig

\* AbortController.abort(): sets signal.aborted.
ControllerAbort(sig, r) == [sig EXCEPT ![r] = TRUE]
\* Mutant of ControllerEvents: every abort() dispatches the event.
ControllerEvents_always(ev, sig, r) == [ev EXCEPT ![r] = ev[r] + 1]

\* The abort event is dispatched only by the first abort() of a controller.
ControllerEvents(ev, sig, r) == IF sig[r] THEN ev ELSE [ev EXCEPT ![r] = ev[r] + 1]

\* Mutant of AbortEventView: abort() is called before updateResult.
AbortEventView_early(before, after) == before.status

\* The snapshot status the subscribers of the abort event observe: the event is
\* dispatched synchronously by abort() (index.ts:125, 188), after updateResult
\* (index.ts:124, 184) has replaced the snapshot `before` by `after`.
AbortEventView(before, after) == after.status

\* The signal's flag when abort calls rerender() (index.ts:126), which follows
\* abortController.abort() (index.ts:125).
RerenderView(sigBefore, sigAfter, r) == IF sigAfter[r] THEN "aborted" ELSE "unaborted"

\* Mutant of rerender: the notifier is invoked twice.
rerender_twice(n) == n + 2

\* index.ts:136: rerender, one state update of the host component.
rerender(n) == n + 1

\* Mutant of StartRerenders: the start rerenders.
StartRerenders_once(n) == n + 1

\* index.ts:184-191: the useMemo body makes no rerender() call.
StartRerenders(n) == n

\* Mutant of AbortGuard: abort is accepted for any registered status.
AbortGuard_anyEntry(m, task) == m[task] # undefined

\* index.ts:123: the guard of abort.
AbortGuard(m, task) == m[task] = "running"

\* index.ts:145-153: whether onfulfilled publishes.
FulfilGuard(m, task) == m[task] \notin {undefined, "aborted"}

\* Mutant of RejectGuard: only the invalidate sentinel is swallowed.
RejectGuard_onlyInvalidate(m, task, error) == error # symbolInvalidate

\* index.ts:156-164: whether onrejected publishes.
RejectGuard(m, task, error) == error \notin Sentinels

\* Mutant of tick: the `aborted` case is missing.
tick_noAborted(m, task) ==
  IF m[task] = undefined THEN symbolInvalidate ELSE "tick"

\* index.ts:167-179: what the promise returned by tick() settles with.
tick(m, task) ==
  CASE m[task] = undefined -> symbolInvalidate
    [] m[task] = "aborted" -> symbolAborted
    [] OTHER -> "tick"

\* ---------------------------------------------------------------------- Init
\* The hook's refs as initialised by the first render, before its useMemo body
\* runs (index.ts:112-136).
Init ==
  /\ nRuns = 0
  /\ taskOf = [r \in Runs |-> undefined]
  /\ tasks = [t \in TaskFns |-> undefined]
  /\ staleTaskRef = undefined
  /\ staleAbortControllerRef = NoRun
  /\ signalAborted = [r \in Runs |-> FALSE]
  /\ abortEvents = [r \in Runs |-> 0]
  /\ resultRef = ResultRunning(0)
  /\ rerenders = 0
  /\ publications = 0
  /\ promise = [r \in Runs |-> "none"]
  /\ caught = [r \in Runs |-> {}]
  /\ last = [op |-> "init", run |-> NoRun, arg |-> NoPayload,
             seen |-> "none", flag |-> "none"]

\* ------------------------------------------------------------------- actions
\* A render whose dependencies changed (or the first render) given task
\* function object fn: the useMemo body, index.ts:143-192.
Start(fn) ==
  /\ nRuns < MaxRuns
  /\ LET r == nRuns IN
     /\ nRuns' = nRuns + 1
     /\ taskOf' = [taskOf EXCEPT ![r] = fn]
     /\ resultRef' = ResultRunning(r)
     /\ tasks' = InvalidateStale(updateResultTasks(tasks, fn, "running"), staleTaskRef)
     /\ staleTaskRef' = fn
     /\ IF staleAbortControllerRef # NoRun
        THEN /\ signalAborted' = ControllerAbort(signalAborted, staleAbortControllerRef)
             /\ abortEvents' = ControllerEvents(abortEvents, signalAborted, staleAbortControllerRef)
        ELSE UNCHANGED <<signalAborted, abortEvents>>
     /\ staleAbortControllerRef' = r
     /\ promise' = [promise EXCEPT ![r] = "pending"]
     /\ last' = [op |-> "start", run |-> r, arg |-> NoPayload,
                  seen |-> IF staleAbortControllerRef # NoRun /\ ~signalAborted[staleAbortControllerRef]
                           THEN AbortEventView(resultRef, ResultRunning(r))
                           ELSE "none",
                  flag |-> "none"]
     /\ rerenders' = StartRerenders(rerenders)
     /\ UNCHANGED <<publications, caught>>

\* A call of the abort function created for run r (index.ts:122-128).  The
\* function is handed out in run r's `running` result and may be kept and
\* called at any later time.
Abort(r) ==
  /\ Started(r)
  /\ IF AbortGuard(tasks, taskOf[r])
     THEN /\ resultRef' = ResultAborted
          /\ tasks' = updateResultTasks(tasks, taskOf[r], "aborted")
          /\ publications' = publications + 1
          /\ signalAborted' = ControllerAbort(signalAborted, r)
          /\ abortEvents' = ControllerEvents(abortEvents, signalAborted, r)
          /\ rerenders' = rerender(rerenders)
          /\ last' = [op |-> "abort", run |-> r, arg |-> Registry(r),
                       seen |-> IF signalAborted[r] THEN "none"
                                ELSE AbortEventView(resultRef, ResultAborted),
                       flag |-> RerenderView(signalAborted, ControllerAbort(signalAborted, r), r)]
     ELSE /\ last' = [op |-> "abort", run |-> r, arg |-> Registry(r),
                       seen |-> "none", flag |-> "none"]
          /\ UNCHANGED <<resultRef, tasks, signalAborted, abortEvents, rerenders,
                         publications>>
  /\ UNCHANGED <<nRuns, taskOf, staleTaskRef, staleAbortControllerRef, promise, caught>>

\* Mutant of Tick: a tick() that finds the entry `aborted` removes it.
Tick_evicts(r) ==
  /\ r \in Runs /\ r < nRuns
  /\ promise[r] = "pending"
  /\ LET out == tick(tasks, taskOf[r]) IN
     /\ last' = [op |-> "tick", run |-> r, arg |-> out, seen |-> "none", flag |-> "none"]
     /\ caught' = [caught EXCEPT ![r] = IF out \in Sentinels THEN @ \cup {out} ELSE @]
     /\ tasks' = IF out = symbolAborted THEN MapDelete(tasks, taskOf[r]) ELSE tasks
  /\ UNCHANGED <<nRuns, taskOf, staleTaskRef, staleAbortControllerRef,
                 signalAborted, abortEvents, resultRef, rerenders, publications,
                 promise>>

\* The body of run r awaits tick() (index.ts:167-179).
Tick(r) ==
  /\ Started(r)
  /\ promise[r] = "pending"
  /\ LET out == tick(tasks, taskOf[r]) IN
     /\ last' = [op |-> "tick", run |-> r, arg |-> out, seen |-> "none", flag |-> "none"]
     /\ caught' = [caught EXCEPT ![r] = IF out \in Sentinels THEN @ \cup {out} ELSE @]
  /\ UNCHANGED <<nRuns, taskOf, tasks, staleTaskRef, staleAbortControllerRef,
                 signalAborted, abortEvents, resultRef, rerenders, publications,
                 promise>>

\* The body of run r returns value: onfulfilled runs (index.ts:144-154).
Fulfil(r, value) ==
  /\ Started(r)
  /\ promise[r] = "pending"
  /\ promise' = [promise EXCEPT ![r] = "fulfilled"]
  /\ last' = [op |-> "fulfil", run |-> r, arg |-> value, seen |-> "none", flag |-> "none"]
  /\ IF FulfilGuard(tasks, taskOf[r])
     THEN /\ resultRef' = ResultFulfilled(value)
          /\ tasks' = updateResultTasks(tasks, taskOf[r], "fulfilled")
          /\ publications' = publications + 1
          /\ rerenders' = rerender(rerenders)
     ELSE UNCHANGED <<resultRef, tasks, rerenders, publications>>
  /\ caught' = [caught EXCEPT ![r] = {}]
  /\ UNCHANGED <<nRuns, taskOf, staleTaskRef, staleAbortControllerRef,
                 signalAborted, abortEvents>>

\* The body of run r throws error: onrejected runs (index.ts:155-165).  The
\* sentinels are private to the module, so a body can throw one only after a
\* tick() of its own has rejected with it.
Reject(r, error) ==
  /\ Started(r)
  /\ promise[r] = "pending"
  /\ error \in Errors \cup caught[r]
  /\ promise' = [promise EXCEPT ![r] = "rejected"]
  /\ last' = [op |-> "reject", run |-> r, arg |-> error, seen |-> "none", flag |-> "none"]
  /\ IF RejectGuard(tasks, taskOf[r], error)
     THEN /\ resultRef' = ResultRejected(error)
          /\ tasks' = updateResultTasks(tasks, taskOf[r], "rejected")
          /\ publications' = publications + 1
          /\ rerenders' = rerender(rerenders)
     ELSE UNCHANGED <<resultRef, tasks, rerenders, publications>>
  /\ caught' = [caught EXCEPT ![r] = {}]
  /\ UNCHANGED <<nRuns, taskOf, staleTaskRef, staleAbortControllerRef,
                 signalAborted, abortEvents>>

Next ==
  \/ \E fn \in TaskFns : Start(fn)
  \/ \E r \in Runs : Abort(r)
  \/ \E r \in Runs : Tick(r)
  \/ \E r \in Runs, v \in Values : Fulfil(r, v)
  \/ \E r \in Runs, e \in Errors \cup Sentinels : Reject(r, e)

Spec == Init /\ [][Next]_vars

\* ------------------------------------------------------------ step predicates
\* The body of run r settles in this step.
Fulfils(r) == promise[r] = "pending" /\ promise'[r] = "fulfilled"
Rejects(r) == promise[r] = "pending" /\ promise'[r] = "rejected"
\* The abort function of run r is called in this step.
AbortCalled(r) == last'.op = "abort" /\ last'.run = r
\* tick() of run r is called in this step.
TickCalled(r) == last'.op = "tick" /\ last'.run = r
\* A start happens in this step.
Starts == nRuns' = nRuns + 1
\* The hook's observable state is left as it was: no publication, no rerender.
Silent == resultRef' = resultRef /\ tasks' = tasks /\ rerenders' = rerenders
\* The registry entries, as the set of keys of the Map.
Entries == {t \in TaskFns : tasks[t] # undefined}

\* --------------------------------------------------------------------- claims

\* C1: supersession silence, success case.  If run A was superseded by a later
\* start before its body settled, A's fulfilment leaves the snapshot and the
\* registry unchanged and calls rerender zero times.
C1_SupersessionSilenceFulfil ==
  [][\A r \in Runs : (Evicted(r) /\ Fulfils(r)) => Silent]_vars

\* C2: supersession silence, failure case.  If run A was superseded by a later
\* start before its body settled, A's failure with any failure value leaves the
\* snapshot unchanged, does not re-insert A into the registry and calls
\* rerender zero times.
C2_SupersessionSilenceReject ==
  [][\A r \in Runs : (Evicted(r) /\ Rejects(r)) => Silent]_vars

\* C3: abort finality.  An abort accepted for the owning running run makes the
\* snapshot `aborted` in that step, and the later settlement of that run's body
\* (a fulfilment, or a failure with an ordinary error) changes neither the
\* snapshot nor the rerender count.
C3_AbortFinality ==
  [][\A r \in Runs :
       /\ (AbortCalled(r) /\ r = Owner /\ Registry(r) = "running")
            => resultRef'.status = "aborted"
       /\ (/\ r = Owner /\ Registry(r) = "aborted" /\ resultRef.status = "aborted"
           /\ (Fulfils(r) \/ (Rejects(r) /\ last'.arg \notin Sentinels)))
            => (resultRef' = resultRef /\ rerenders' = rerenders)]_vars

\* C4: single terminal outcome per lineage.  Between two starts a terminal
\* status is published at most once (only over a `running` snapshot), and the
\* snapshot is never terminal while the owning run's status is still running.
C4_SingleTerminalOutcome ==
  /\ [](resultRef.status \in Terminal => Registry(Owner) # "running")
  /\ [][(~Starts /\ (rerenders' # rerenders \/ resultRef' # resultRef))
          => (resultRef.status = "running" /\ resultRef'.status \in Terminal)]_vars

\* C5: checkpoint decision table.  A tick() of run h rejects with the
\* invalidate sentinel if h has no registry entry, rejects with the aborted
\* sentinel if its entry is `aborted`, and resolves (to tick) otherwise; so it
\* resolves whenever h is the owner with status `running`.
C5_CheckpointTable ==
  [][\A r \in Runs : TickCalled(r) =>
       /\ (Registry(r) = undefined => last'.arg = symbolInvalidate)
       /\ (Registry(r) = "aborted" => last'.arg = symbolAborted)
       /\ (Registry(r) \in {"running", "fulfilled", "rejected"} => last'.arg = "tick")
       /\ ((r = Owner /\ Registry(r) = "running") => last'.arg = "tick")]_vars

\* C5 witness: a superseded body holds the invalidate sentinel and the owner's
\* tick() has just rejected with the aborted sentinel.
C5_Witness ==
  /\ last.op = "tick" /\ last.run = Owner /\ last.arg = symbolAborted
  /\ \E r \in Runs : Evicted(r) /\ symbolInvalidate \in caught[r]

\* C6: signal round trip.  The aborted flag of a run's signal starts false and
\* becomes true exactly in a step that is an abort request for that run while
\* it is the owner with status `running`, or a start that supersedes it; no
\* other step changes it, and it never becomes false again.
C6_SignalRoundTrip ==
  /\ \A r \in Runs : ~signalAborted[r]
  /\ [](\A r \in Runs : Evicted(r) => signalAborted[r])
  /\ [][\A r \in Runs :
          LET accepted == AbortCalled(r) /\ r = Owner /\ Registry(r) = "running"
              evicted == Starts /\ r = Owner
          IN /\ (accepted \/ evicted) => signalAborted'[r]
             /\ (signalAborted'[r] # signalAborted[r])
                  => (signalAborted'[r] /\ (accepted \/ evicted))]_vars

\* C6 witness: run 0 was superseded (its signal is aborted), the owner has
\* fulfilled, and an abort request for the owner was just refused, leaving the
\* owner's signal unaborted.
C6_Witness ==
  /\ nRuns >= 2 /\ signalAborted[0] /\ ~signalAborted[Owner]
  /\ last.op = "abort" /\ last.run = Owner /\ last.arg = "fulfilled"

\* C7: abort idempotence.  An abort request for a run whose registry status is
\* already `aborted`, `fulfilled` or `rejected` changes neither the snapshot,
\* the registry nor the aborted flags, and calls rerender zero times.
C7_AbortIdempotence ==
  [][\A r \in Runs : (AbortCalled(r) /\ Registry(r) \in Terminal)
        => (Silent /\ signalAborted' = signalAborted)]_vars

\* C7 witness: a second abort request right after an accepted one (one
\* rerender so far, the snapshot still `aborted`).
C7_Witness ==
  /\ last.op = "abort" /\ last.run = Owner /\ last.arg = "aborted"
  /\ resultRef.status = "aborted" /\ rerenders = 1

\* C8: a stale abort is ignored.  The abort function of run A, called after A
\* was superseded, changes neither the snapshot, the registry nor any aborted
\* flag, and calls rerender zero times.
C8_StaleAbortIgnored ==
  [][\A r \in Runs : (AbortCalled(r) /\ Evicted(r))
        => (Silent /\ signalAborted' = signalAborted)]_vars

\* C9: at most one running owner.  At most one registry entry has status
\* `running`.
C9_AtMostOneRunning ==
  Cardinality({t \in TaskFns : tasks[t] = "running"}) <= 1

\* C9 witness: the registry holds two entries (a superseded run re-entered by
\* its failure, and the owner), one of them running.
C9_Witness ==
  /\ Cardinality(Entries) = 2
  /\ Cardinality({t \in TaskFns : tasks[t] = "running"}) = 1

\* C10: single-slot registry.  The registry holds at most one entry, and that
\* entry belongs to the most recently started run.
C10_SingleSlotRegistry ==
  /\ Cardinality(Entries) <= 1
  /\ \A t \in Entries : nRuns > 0 /\ t = taskOf[Owner]

\* C11: start registers the new run.  Right after every start, also one given
\* the same task function object as the previous run, the registry maps the
\* new run's handle to `running`.
C11_StartRegisters ==
  [][Starts => tasks'[taskOf'[nRuns]] = "running"]_vars

\* C12: start publishes running.  After every start the snapshot is a `running`
\* value whose abort function is the new run's, no outcome is published by the
\* start itself, and calling that abort function while the new run is running
\* aborts the new run's signal and leaves every other signal as it was.
C12_StartPublishesRunning ==
  [][/\ Starts =>
          /\ resultRef'.status = "running" /\ resultRef'.abort = nRuns
          /\ resultRef'.payload = NoPayload
          /\ publications' = publications
     /\ \A r \in Runs :
          (AbortCalled(r) /\ resultRef.status = "running" /\ resultRef.abort = r
             /\ Registry(r) = "running")
            => /\ signalAborted'[r]
               /\ \A q \in Runs \ {r} : signalAborted'[q] = signalAborted[q]]_vars

\* C12 witness: a restart over a published `fulfilled` snapshot of run 0.
C12_Witness ==
  /\ last.op = "start" /\ last.run = 1 /\ promise[0] = "fulfilled"
  /\ publications = 1 /\ resultRef.status = "running" /\ resultRef.abort = 1

C15_FulfilmentPublication ==
  [][\A r \in Runs : (Fulfils(r) /\ r = Owner /\ Registry(r) = "running")
        => /\ resultRef'.status = "fulfilled"
           /\ resultRef'.payload = last'.arg
           /\ tasks'[taskOf[r]] = "fulfilled"]_vars

\* C15 witness: the second run, the owner, has fulfilled with v2.
C15_Witness ==
  /\ last.op = "fulfil" /\ last.run = Owner /\ last.arg = "v2" /\ nRuns = 2
  /\ resultRef.status = "fulfilled" /\ resultRef.payload = "v2"

\* C16: a genuine failure is surfaced verbatim.  When the body of the owning
\* run, whose registry status is `running`, fails with an error that is no
\* sentinel, the snapshot becomes `rejected` carrying that error and the run's
\* registry status becomes `rejected`.
C16_FailureVerbatim ==
  [][\A r \in Runs :
       (Rejects(r) /\ r = Owner /\ Registry(r) = "running" /\ last'.arg \notin Sentinels)
        => /\ resultRef'.status = "rejected"
           /\ resultRef'.payload = last'.arg
           /\ tasks'[taskOf[r]] = "rejected"]_vars

\* C16 witness: the owner has failed with e1 while running.
C16_Witness ==
  /\ last.op = "reject" /\ last.run = Owner /\ last.arg = "e1"
  /\ resultRef.status = "rejected" /\ resultRef.payload = "e1" /\ publications = 1

\* C17: sentinels are swallowed.  A body failing with a sentinel leaves the
\* snapshot and the registry unchanged and calls rerender zero times, and the
\* snapshot is never `rejected` with a sentinel as its error.
C17_SentinelsSwallowed ==
  /\ [](resultRef.status = "rejected" => resultRef.payload \notin Sentinels)
  /\ [][\A r \in Runs : (Rejects(r) /\ last'.arg \in Sentinels)
          => (Silent /\ publications' = publications)]_vars

\* C17 witness: the aborted owner's body has thrown the aborted sentinel it
\* got from tick().
C17_Witness ==
  /\ last.op = "reject" /\ last.run = Owner /\ last.arg = symbolAborted
  /\ resultRef.status = "aborted"

\* C18: eviction precedes the new body.  A restart leaves the previous run
\* without registry entry and with its signal aborted, and every tick() of a
\* superseded run rejects with the invalidate sentinel.
C18_EvictionPrecedesBody ==
  [][/\ (Starts /\ nRuns >= 1)
          => (tasks'[taskOf[Owner]] = undefined /\ signalAborted'[Owner])
     /\ \A r \in Runs : (TickCalled(r) /\ Evicted(r))
          => last'.arg = symbolInvalidate]_vars

\* C19: an accepted abort keeps ownership.  An abort accepted for the owning
\* running run sets its registry status to `aborted` without removing the
\* entry or changing the owner, and from then until the next start every
\* tick() of that run rejects with the aborted sentinel.
C19_AbortKeepsOwnership ==
  [][\A r \in Runs :
       /\ (AbortCalled(r) /\ r = Owner /\ Registry(r) = "running")
            => /\ tasks'[taskOf[r]] = "aborted"
               /\ nRuns' = nRuns /\ staleTaskRef' = staleTaskRef
       /\ (TickCalled(r) /\ r = Owner /\ signalAborted[r])
            => last'.arg = symbolAborted]_vars

\* C20: order inside an accepted abort.  The snapshot is set to `aborted`
\* before the signal is triggered and rerender is called last: the subscribers
\* of the abort event observe the status `aborted`, and rerender is called with
\* the signal already aborted.
C20_AbortOrder ==
  [][\A r \in Runs : (AbortCalled(r) /\ Registry(r) = "running")
        => /\ resultRef'.status = "aborted"
           /\ last'.seen \in {"none", "aborted"}
           /\ (r = Owner => last'.seen = "aborted")
           /\ last'.flag = "aborted"]_vars

\* C20 witness: an accepted abort whose abort event was dispatched.
C20_Witness ==
  /\ last.op = "abort" /\ last.arg = "running"
  /\ last.seen = "aborted" /\ last.flag = "aborted"

\* C21: one eviction per restart.  The first start removes no registry entry
\* and triggers no cancellation source; a later start removes at most the entry
\* of the immediately preceding run, triggers exactly that run's cancellation
\* source, leaves the entry of the run it starts in place (`running`) and
\* leaves the entries and signals of all older runs as they were.
C21_OneEvictionPerRestart ==
  [][Starts =>
       LET new == taskOf'[nRuns]
           removed == {t \in Entries : tasks'[t] = undefined}
       IN /\ nRuns = 0 => (removed = {} /\ signalAborted' = signalAborted)
          /\ nRuns >= 1 =>
               /\ removed \subseteq {taskOf[Owner]}
               /\ signalAborted'[Owner]
               /\ \A q \in Runs \ {Owner} : signalAborted'[q] = signalAborted[q]
               /\ \A q \in Runs : (q < Owner /\ taskOf[q] # taskOf[Owner])
                    => tasks'[taskOf[q]] = tasks[taskOf[q]]
          /\ tasks'[new] = "running"]_vars

\* C22: only start removes entries.  A step that is no start (an abort
\* request, a tick, a settlement, published or discarded) removes no registry
\* entry, and a start removes no entry but the previous run's.
C22_OnlyStartRemoves ==
  [][LET removed == {t \in Entries : tasks'[t] = undefined}
     IN /\ ~Starts => removed = {}
        /\ (Starts /\ nRuns >= 1) => removed \subseteq {taskOf[Owner]}
        /\ (Starts /\ nRuns = 0) => removed = {}]_vars

\* C22 witness: the owner's abort was accepted, its body then threw the
\* aborted sentinel it got from tick(), and the entry is still there.
C22_Witness ==
  /\ last.op = "reject" /\ last.run = Owner /\ last.arg = symbolAborted
  /\ Registry(Owner) = "aborted" /\ nRuns = 2

\* C23: the snapshot mirrors the owner.  Once a run has been started, the
\* snapshot's status equals the registry status of the most recently started
\* run.
C23_SnapshotMirrorsOwner ==
  nRuns >= 1 => resultRef.status = Registry(Owner)

C25_CheckpointPure ==
  [][\A r \in Runs : TickCalled(r)
        => /\ tasks' = tasks /\ resultRef' = resultRef
           /\ signalAborted' = signalAborted /\ abortEvents' = abortEvents
           /\ rerenders' = rerenders /\ publications' = publications]_vars

\* C25 witness: after one publication (an accepted abort) the owner's tick()
\* has rejected in a second run's lifetime.
C25_Witness ==
  /\ last.op = "tick" /\ last.run = Owner /\ last.arg = symbolAborted
  /\ nRuns = 2 /\ publications = 1 /\ resultRef.status = "aborted"

\* C26: the latest run's outcome is published.  When the body of the most
\* recently started run settles (fulfils, or fails with an ordinary error) and
\* no abort was accepted for that run, the snapshot becomes `fulfilled` or
\* `rejected` with that outcome; and after a supersession, while the latest
\* run's body is pending and no abort was accepted for it, the snapshot is
\* `running`.  (The settlement handler runs in the step in which the body
\* settles, so the eventuality is decided by that step.)
C26_LatestOutcomePublished ==
  /\ []((nRuns >= 2 /\ promise[Owner] = "pending" /\ ~signalAborted[Owner])
          => resultRef.status = "running")
  /\ [][\A r \in Runs :
          /\ (r = Owner /\ ~signalAborted[r] /\ Fulfils(r))
               => (resultRef'.status = "fulfilled" /\ resultRef'.payload = last'.arg)
          /\ (r = Owner /\ ~signalAborted[r] /\ Rejects(r) /\ last'.arg \notin Sentinels)
               => (resultRef'.status = "rejected" /\ resultRef'.payload = last'.arg)]_vars

TypeOK ==
  /\ nRuns \in 0 .. MaxRuns
  /\ tasks \in [TaskFns -> Status \cup {undefined}]
  /\ resultRef.status \in Status
  /\ \A r \in Runs : promise[r] \in {"none", "pending", "fulfilled", "rejected"}
====
